---- MODULE Spec2Model ----
(***************************************************************************)
(* Chef provider of external-secrets: store validation, client            *)
(* construction and the provider instance registered at load time.        *)
(* Modelled from src/unnamed/part_001, lines 336-601 (the newest revision *)
(* of pkg/provider/chef/chef.go held in the repository).                  *)
(*                                                                         *)
(* Conventions                                                             *)
(*   - a Go pointer is a sequence of length 0 (nil) or 1 (the pointee);    *)
(*   - a Go string whose characters matter (UserName, ServerURL) is a      *)
(*     sequence of one-character strings; other strings are TLA+ strings;  *)
(*   - a Go error is the sequence of the message parts that fmt.Errorf     *)
(*     chained with %w, outermost first; the nil error is <<>>.            *)
(***************************************************************************)
EXTENDS Integers, Sequences, FiniteSets, TLC

VARIABLES
    ChefInterface,  \* Providerchef.ChefInterface of the registered provider
    handles,        \* clients built for the handles NewClient has returned, in order
    kube,           \* the secrets of the cluster the kube client reads
    opName,         \* the operation that returned last
    store,          \* its store argument
    namespace,      \* its namespace argument
    ret,            \* the handle it returned (nil or the provider)
    err,            \* the error it returned
    trace,          \* the calls it made to its collaborators, in order
    remoteRef,      \* its remote reference argument (Key, Property)
    secretData,     \* the bytes it returned (GetSecret)
    secretMap,      \* the map it returned (GetSecretMap, GetAllSecrets)
    validationResult, \* the status it returned (Validate)
    usersGet,       \* what the server answered, during the call, to a fetch of the principal
    fault           \* the run-time panics that ended it instead of a return

vars == <<ChefInterface, handles, kube, opName, store, namespace, ret, err, trace,
          remoteRef, secretData, secretMap, validationResult, usersGet, fault>>

(***************************************************************************)
(* Pointers                                                                *)
(***************************************************************************)
Nil == <<>>
Ref(x) == <<x>>
Deref(p) == p[1]

(***************************************************************************)
(* Error messages (const block, part_001:369-394)                          *)
(***************************************************************************)
errChefStore == "received invalid Chef SecretStore resource: "
errMissingStore == "missing store"
errMisingStoreSpec == "missing store spec"
errMissingProvider == "missing provider"
errMissingChefProvider == "missing chef provider"
errMissingName == "missing Name"
errMissingBaseURL == "missing BaseURL"
errMissingAuth == "cannot initialize Chef Client: no valid authType was specified"
errMissingSecretKey == "missing Secret Key"
errFetchK8sSecret == "could not fetch SecretKey Secret: "
errChefInvalidURL == "unable to parse URL: "
errChefInvalidName == "invalid name: allowed values are lowecase letters, numbers, hyphens and underscores"
errChefClient == "unable to create chef client: "
errChefProvider == "missing or invalid spec: "
errServerURLNoEndSlash == "server URL does not end with slash(/)"

NoError == <<>>
Errorf(msg) == <<msg>>
\* fmt.Errorf(format, err) with a format "prefix: %w"
Wrapf(prefix, e) == <<prefix>> \o e

(***************************************************************************)
(* Characters and the strings the stores are built from                    *)
(***************************************************************************)
LowerCase == {"b", "c", "h", "r", "s", "u"}
UpperCase == {"U"}
Digit == {"1"}

EmptyString == <<>>
name == <<"u", "-", "1">>
upperName == <<"U", "s", "r">>
baseURL == <<"h", ":", "/", "/", "c", "/">>
noEndSlashBaseURL == <<"h", ":", "/", "/", "c">>
baseInvalidURL == <<"c", " ", "b", "/">>
noEndSlashInvalidBaseURL == <<"c", " ", "b">>

authName == "chef-demo-auth-name"
authKey == "chef-demo-auth-key"
authNamespace == "chef-demo-auth-namespace"
callerNamespace == "default"

SecretStoreKind == "SecretStore"
ClusterSecretStoreKind == "ClusterSecretStore"

UserNames == {EmptyString, name, upperName}
ServerURLs ==
    {EmptyString, baseURL, noEndSlashBaseURL, baseInvalidURL, noEndSlashInvalidBaseURL}
SecretKeySelectors ==
    [Name : {"", authName}, Key : {"", authKey}, Namespace : {Nil, Ref(authNamespace)}]
ChefAuths == {Nil} \cup {Ref([SecretRef |-> [SecretKey |-> k]]) : k \in SecretKeySelectors}
ChefProviders == [UserName : UserNames, ServerURL : ServerURLs, Auth : ChefAuths]
SecretStoreProviders == {Nil} \cup {Ref([Chef |-> c]) : c \in {Nil} \cup {Ref(p) : p \in ChefProviders}}
SecretStoreSpecs == {Nil} \cup {Ref([Provider |-> p]) : p \in SecretStoreProviders}
Kinds == {SecretStoreKind, ClusterSecretStoreKind}

\* every GenericStore the validation is run on, the nil store included
Stores == {Nil} \cup {Ref([Kind |-> k, Spec |-> s]) : k \in Kinds, s \in SecretStoreSpecs}

makeAuth(n, ns, k) == Ref([SecretRef |-> [SecretKey |-> [Name |-> n, Key |-> k, Namespace |-> ns]]])
makeSecretStore(kind, n, url, auth) ==
    Ref([Kind |-> kind,
         Spec |-> Ref([Provider |-> Ref([Chef |-> Ref([UserName |-> n, ServerURL |-> url, Auth |-> auth])])])])

(***************************************************************************)
(* Reading a store                                                         *)
(***************************************************************************)
\* the store carries a chef provider block
HasChefProvider(s) ==
    /\ s # Nil
    /\ Deref(s).Spec # Nil
    /\ Deref(Deref(s).Spec).Provider # Nil
    /\ Deref(Deref(Deref(s).Spec).Provider).Chef # Nil

ChefOf(s) == Deref(Deref(Deref(Deref(s).Spec).Provider).Chef)
SecretKeyOf(s) == Deref(ChefOf(s).Auth).SecretRef.SecretKey

(***************************************************************************)
(* net/url.ParseRequestURI as far as the stores reach it: the scheme scan  *)
(* and the test for an absolute path or a scheme.                          *)
(***************************************************************************)
IsSchemeLetter(c) == c \in LowerCase \cup UpperCase
IsSchemeOther(c) == c \in Digit \cup {"+", "-", "."}

\* first index at which the scheme scan stops, 0 when it runs off the end
SchemeStop(rawURL) ==
    LET stops == {i \in 1..Len(rawURL) :
                    ~IsSchemeLetter(rawURL[i]) /\ ~(IsSchemeOther(rawURL[i]) /\ i > 1)}
    IN IF stops = {} THEN 0 ELSE CHOOSE i \in stops : \A j \in stops : i <= j

getScheme(rawURL) ==
    LET i == SchemeStop(rawURL)
    IN IF i = 0 \/ rawURL[i] # ":"
       THEN [scheme |-> <<>>, rest |-> rawURL, err |-> NoError]
       ELSE IF i = 1
            THEN [scheme |-> <<>>, rest |-> <<>>, err |-> Errorf("missing protocol scheme")]
            ELSE [scheme |-> SubSeq(rawURL, 1, i - 1),
                  rest |-> SubSeq(rawURL, i + 1, Len(rawURL)),
                  err |-> NoError]

HasPrefix(s, c) == Len(s) > 0 /\ s[1] = c
HasSuffix(s, c) == Len(s) > 0 /\ s[Len(s)] = c

ParseRequestURI(rawURL) ==
    IF rawURL = EmptyString THEN Errorf("empty url")
    ELSE LET g == getScheme(rawURL)
         IN IF g.err # NoError THEN g.err
            ELSE IF ~HasPrefix(g.rest, "/") /\ g.scheme = <<>>
                 THEN Errorf("invalid URI for request")
                 ELSE NoError

(***************************************************************************)
(* utils.ValidateSecretSelector: the namespace of a secret reference       *)
(* against the scope of the store.                                         *)
(***************************************************************************)
ValidateSecretSelector(s, ref) ==
    LET clusterScope == Deref(s).Kind = ClusterSecretStoreKind
    IN IF clusterScope /\ ref.Namespace = Nil
       THEN Errorf("cluster scope requires namespace")
       ELSE IF ~clusterScope /\ ref.Namespace # Nil
            THEN Errorf("namespace not allowed with namespaced SecretStore")
            ELSE NoError

(***************************************************************************)
(* Faulty variant of getChefProvider: the secret key name is not checked.  *)
(***************************************************************************)
getChefProvider_KeyUnchecked(s) ==
    IF s = Nil THEN [chefProvider |-> Nil, err |-> Errorf(errMissingStore)]
    ELSE LET storeSpec == Deref(s).Spec IN
    IF storeSpec = Nil THEN [chefProvider |-> Nil, err |-> Errorf(errMisingStoreSpec)]
    ELSE LET provider == Deref(storeSpec).Provider IN
    IF provider = Nil THEN [chefProvider |-> Nil, err |-> Errorf(errMissingProvider)]
    ELSE LET chefProvider == Deref(provider).Chef IN
    IF chefProvider = Nil THEN [chefProvider |-> Nil, err |-> Errorf(errMissingChefProvider)]
    ELSE LET cp == Deref(chefProvider) IN
    IF cp.UserName = EmptyString
    THEN [chefProvider |-> chefProvider, err |-> Errorf(errMissingName)]
    ELSE IF cp.ServerURL = EmptyString
    THEN [chefProvider |-> chefProvider, err |-> Errorf(errMissingBaseURL)]
    ELSE IF ParseRequestURI(cp.ServerURL) # NoError
    THEN [chefProvider |-> chefProvider,
          err |-> Wrapf(errChefInvalidURL, ParseRequestURI(cp.ServerURL))]
    ELSE IF cp.Auth = Nil
    THEN [chefProvider |-> chefProvider, err |-> Errorf(errMissingAuth)]
    ELSE [chefProvider |-> chefProvider, err |-> NoError]

(***************************************************************************)
(* getChefProvider (part_001:567-601)                                      *)
(***************************************************************************)
getChefProvider(s) ==
    IF s = Nil THEN [chefProvider |-> Nil, err |-> Errorf(errMissingStore)]
    ELSE LET storeSpec == Deref(s).Spec IN
    IF storeSpec = Nil THEN [chefProvider |-> Nil, err |-> Errorf(errMisingStoreSpec)]
    ELSE LET provider == Deref(storeSpec).Provider IN
    IF provider = Nil THEN [chefProvider |-> Nil, err |-> Errorf(errMissingProvider)]
    ELSE LET chefProvider == Deref(provider).Chef IN
    IF chefProvider = Nil THEN [chefProvider |-> Nil, err |-> Errorf(errMissingChefProvider)]
    ELSE LET cp == Deref(chefProvider) IN
    IF cp.UserName = EmptyString
    THEN [chefProvider |-> chefProvider, err |-> Errorf(errMissingName)]
    ELSE IF cp.ServerURL = EmptyString
    THEN [chefProvider |-> chefProvider, err |-> Errorf(errMissingBaseURL)]
    ELSE IF ParseRequestURI(cp.ServerURL) # NoError
    THEN [chefProvider |-> chefProvider,
          err |-> Wrapf(errChefInvalidURL, ParseRequestURI(cp.ServerURL))]
    ELSE IF cp.Auth = Nil
    THEN [chefProvider |-> chefProvider, err |-> Errorf(errMissingAuth)]
    ELSE IF Deref(cp.Auth).SecretRef.SecretKey.Key = ""
    THEN [chefProvider |-> chefProvider, err |-> Errorf(errMissingSecretKey)]
    ELSE [chefProvider |-> chefProvider, err |-> NoError]

(***************************************************************************)
(* Faulty variants of ValidateStore: the selector check is left out; the   *)
(* selector's error is returned as it is.                                  *)
(***************************************************************************)
ValidateStore_SelectorSkipped(s) ==
    LET g == getChefProvider(s) IN
    IF g.err # NoError
    THEN [err |-> Wrapf(errChefStore, g.err), trace |-> <<>>]
    ELSE [err |-> NoError, trace |-> <<>>]

ValidateStore_SelectorErrorBare(s) ==
    LET g == getChefProvider(s) IN
    IF g.err # NoError
    THEN [err |-> Wrapf(errChefStore, g.err), trace |-> <<>>]
    ELSE LET ref == Deref(Deref(g.chefProvider).Auth).SecretRef.SecretKey
         IN [err |-> ValidateSecretSelector(s, ref),
             trace |-> <<[call |-> "utils.ValidateSecretSelector", arg |-> ref]>>]

(***************************************************************************)
(* ValidateStore (part_001:554-564): the error returned and the calls made *)
(***************************************************************************)
ValidateStore(s) ==
    LET g == getChefProvider(s) IN
    IF g.err # NoError
    THEN [err |-> Wrapf(errChefStore, g.err), trace |-> <<>>]
    ELSE LET ref == Deref(Deref(g.chefProvider).Auth).SecretRef.SecretKey
             e == ValidateSecretSelector(s, ref)
         IN [err |-> IF e # NoError THEN Wrapf(errChefStore, e) ELSE NoError,
             trace |-> <<[call |-> "utils.ValidateSecretSelector", arg |-> ref]>>]

(***************************************************************************)
(* The cluster: kube.Get of the secret named by an object key, and the     *)
(* lookup of a key in the secret's Data (a missing key reads as nil).      *)
(***************************************************************************)
privateKey == <<"PEM">>
malformedKey == <<"testPrivateKeyBase64Encoded">>
emptyKey == <<>>

makeSecret(data) == [Name |-> authName, Namespace |-> authNamespace, Data |-> data]

\* the clusters a behaviour may run against
KubeWorlds ==
    { {},
      {makeSecret([k \in {authKey} |-> privateKey])},
      {makeSecret([k \in {authKey} |-> emptyKey])},
      {makeSecret([k \in {"other-key"} |-> privateKey])},
      {makeSecret([k \in {authKey} |-> malformedKey])} }

kubeGet(cluster, objectKey) ==
    LET found == {o \in cluster : o.Name = objectKey.Name /\ o.Namespace = objectKey.Namespace}
    IN IF found = {}
       THEN [err |-> Errorf("secrets not found"), secret |-> [Data |-> <<>>]]
       ELSE [err |-> NoError, secret |-> CHOOSE o \in found : TRUE]

DataLookup(data, k) == IF k \in DOMAIN data THEN data[k] ELSE <<>>

(***************************************************************************)
(* chef.NewClient of go-chef: rejects key material it cannot parse, else   *)
(* returns a client whose DataBags service signs with that configuration.  *)
(***************************************************************************)
chefNewClient(cfg) ==
    IF cfg.Key # privateKey
    THEN [err |-> Errorf("private key block size invalid"), client |-> Nil]
    ELSE [err |-> NoError, client |-> Ref(cfg)]

\* chef.DataBagService: the zero value holds no client
ZeroDataBagService == [client |-> Nil]
DataBags(client) == [client |-> client]

\* the handle NewClient returns is the receiver itself (return providerchef)
providerchef == "providerchef"

(***************************************************************************)
(* Faulty variants of NewClient: empty key material is handed to the       *)
(* library; the library's error is dropped and its client installed.       *)
(***************************************************************************)
NewClient_EmptyKeyAccepted(prov, s, cluster, ns) ==
    LET g == getChefProvider(s) IN
    IF g.err # NoError
    THEN [ret |-> Nil, err |-> Wrapf(errChefProvider, g.err), ChefInterface |-> prov,
          trace |-> <<>>]
    ELSE
    LET chefProvider == Deref(g.chefProvider)
        objectKey == [Name |-> Deref(chefProvider.Auth).SecretRef.SecretKey.Name,
                      Namespace |-> ns]
        got == kubeGet(cluster, objectKey)
        t1 == <<[call |-> "kube.Get", arg |-> objectKey]>>
    IN
    IF got.err # NoError
    THEN [ret |-> Nil, err |-> Wrapf(errFetchK8sSecret, got.err), ChefInterface |-> prov,
          trace |-> t1]
    ELSE
    LET secretKey == DataLookup(got.secret.Data, Deref(chefProvider.Auth).SecretRef.SecretKey.Key)
    IN
    LET cfg == [Name |-> chefProvider.UserName, Key |-> secretKey,
                BaseURL |-> chefProvider.ServerURL]
        made == chefNewClient(cfg)
        t2 == Append(t1, [call |-> "chef.NewClient", arg |-> cfg])
    IN
    IF made.err # NoError
    THEN [ret |-> Nil, err |-> Wrapf(errChefClient, made.err), ChefInterface |-> prov,
          trace |-> t2]
    ELSE [ret |-> Ref(providerchef), err |-> NoError, ChefInterface |-> DataBags(made.client),
          trace |-> t2]

NewClient_ClientErrorIgnored(prov, s, cluster, ns) ==
    LET g == getChefProvider(s) IN
    IF g.err # NoError
    THEN [ret |-> Nil, err |-> Wrapf(errChefProvider, g.err), ChefInterface |-> prov,
          trace |-> <<>>]
    ELSE
    LET chefProvider == Deref(g.chefProvider)
        objectKey == [Name |-> Deref(chefProvider.Auth).SecretRef.SecretKey.Name,
                      Namespace |-> ns]
        got == kubeGet(cluster, objectKey)
        t1 == <<[call |-> "kube.Get", arg |-> objectKey]>>
    IN
    IF got.err # NoError
    THEN [ret |-> Nil, err |-> Wrapf(errFetchK8sSecret, got.err), ChefInterface |-> prov,
          trace |-> t1]
    ELSE
    LET secretKey == DataLookup(got.secret.Data, Deref(chefProvider.Auth).SecretRef.SecretKey.Key)
    IN
    IF secretKey = <<>>
    THEN [ret |-> Nil, err |-> Errorf(errMissingSecretKey), ChefInterface |-> prov,
          trace |-> t1]
    ELSE
    LET cfg == [Name |-> chefProvider.UserName, Key |-> secretKey,
                BaseURL |-> chefProvider.ServerURL]
        made == chefNewClient(cfg)
        t2 == Append(t1, [call |-> "chef.NewClient", arg |-> cfg])
    IN
    [ret |-> Ref(providerchef), err |-> NoError, ChefInterface |-> DataBags(made.client),
          trace |-> t2]

\* NewClient looking the secret up before the store is checked
NewClient_LookupBeforeChecks(prov, s, cluster, ns) ==
    LET g == getChefProvider(s) IN
    IF g.err # NoError
    THEN [ret |-> Nil, err |-> Wrapf(errChefProvider, g.err), ChefInterface |-> prov,
          trace |-> <<[call |-> "kube.Get", arg |-> [Name |-> "", Namespace |-> ns]]>>]
    ELSE
    LET chefProvider == Deref(g.chefProvider)
        objectKey == [Name |-> Deref(chefProvider.Auth).SecretRef.SecretKey.Name,
                      Namespace |-> ns]
        got == kubeGet(cluster, objectKey)
        t1 == <<[call |-> "kube.Get", arg |-> objectKey]>>
    IN
    IF got.err # NoError
    THEN [ret |-> Nil, err |-> Wrapf(errFetchK8sSecret, got.err), ChefInterface |-> prov,
          trace |-> t1]
    ELSE
    LET secretKey == DataLookup(got.secret.Data, Deref(chefProvider.Auth).SecretRef.SecretKey.Key)
    IN
    IF secretKey = <<>>
    THEN [ret |-> Nil, err |-> Errorf(errMissingSecretKey), ChefInterface |-> prov,
          trace |-> t1]
    ELSE
    LET cfg == [Name |-> chefProvider.UserName, Key |-> secretKey,
                BaseURL |-> chefProvider.ServerURL]
        made == chefNewClient(cfg)
        t2 == Append(t1, [call |-> "chef.NewClient", arg |-> cfg])
    IN
    IF made.err # NoError
    THEN [ret |-> Nil, err |-> Wrapf(errChefClient, made.err), ChefInterface |-> prov,
          trace |-> t2]
    ELSE [ret |-> Ref(providerchef), err |-> NoError, ChefInterface |-> DataBags(made.client),
          trace |-> t2]

\* NewClient leaving the provider without a client when it fails
NewClient_ResetOnError(prov, s, cluster, ns) ==
    LET g == getChefProvider(s) IN
    IF g.err # NoError
    THEN [ret |-> Nil, err |-> Wrapf(errChefProvider, g.err), ChefInterface |-> ZeroDataBagService,
          trace |-> <<>>]
    ELSE
    LET chefProvider == Deref(g.chefProvider)
        objectKey == [Name |-> Deref(chefProvider.Auth).SecretRef.SecretKey.Name,
                      Namespace |-> ns]
        got == kubeGet(cluster, objectKey)
        t1 == <<[call |-> "kube.Get", arg |-> objectKey]>>
    IN
    IF got.err # NoError
    THEN [ret |-> Nil, err |-> Wrapf(errFetchK8sSecret, got.err), ChefInterface |-> ZeroDataBagService,
          trace |-> t1]
    ELSE
    LET secretKey == DataLookup(got.secret.Data, Deref(chefProvider.Auth).SecretRef.SecretKey.Key)
    IN
    IF secretKey = <<>>
    THEN [ret |-> Nil, err |-> Errorf(errMissingSecretKey), ChefInterface |-> ZeroDataBagService,
          trace |-> t1]
    ELSE
    LET cfg == [Name |-> chefProvider.UserName, Key |-> secretKey,
                BaseURL |-> chefProvider.ServerURL]
        made == chefNewClient(cfg)
        t2 == Append(t1, [call |-> "chef.NewClient", arg |-> cfg])
    IN
    IF made.err # NoError
    THEN [ret |-> Nil, err |-> Wrapf(errChefClient, made.err), ChefInterface |-> ZeroDataBagService,
          trace |-> t2]
    ELSE [ret |-> Ref(providerchef), err |-> NoError, ChefInterface |-> DataBags(made.client),
          trace |-> t2]

(***************************************************************************)
(* NewClient (part_001:418-451): prov is the receiver's ChefInterface      *)
(* before the call.                                                        *)
(***************************************************************************)
NewClient(prov, s, cluster, ns) ==
    LET g == getChefProvider(s) IN
    IF g.err # NoError
    THEN [ret |-> Nil, err |-> Wrapf(errChefProvider, g.err), ChefInterface |-> prov,
          trace |-> <<>>]
    ELSE
    LET chefProvider == Deref(g.chefProvider)
        objectKey == [Name |-> Deref(chefProvider.Auth).SecretRef.SecretKey.Name,
                      Namespace |-> ns]
        got == kubeGet(cluster, objectKey)
        t1 == <<[call |-> "kube.Get", arg |-> objectKey]>>
    IN
    IF got.err # NoError
    THEN [ret |-> Nil, err |-> Wrapf(errFetchK8sSecret, got.err), ChefInterface |-> prov,
          trace |-> t1]
    ELSE
    LET secretKey == DataLookup(got.secret.Data, Deref(chefProvider.Auth).SecretRef.SecretKey.Key)
    IN
    IF secretKey = <<>>
    THEN [ret |-> Nil, err |-> Errorf(errMissingSecretKey), ChefInterface |-> prov,
          trace |-> t1]
    ELSE
    LET cfg == [Name |-> chefProvider.UserName, Key |-> secretKey,
                BaseURL |-> chefProvider.ServerURL]
        made == chefNewClient(cfg)
        t2 == Append(t1, [call |-> "chef.NewClient", arg |-> cfg])
    IN
    IF made.err # NoError
    THEN [ret |-> Nil, err |-> Wrapf(errChefClient, made.err), ChefInterface |-> prov,
          trace |-> t2]
    ELSE [ret |-> Ref(providerchef), err |-> NoError, ChefInterface |-> DataBags(made.client),
          trace |-> t2]

(***************************************************************************)
(* Strings that are split: a key or a property is a sequence of atoms, an  *)
(* atom being the separator or a run of other characters.                  *)
(***************************************************************************)
\* strings.Split(s, sep): the n separators of s bound n + 1 segments
Split(s, sep) ==
    LET P == {i \in 1..Len(s) : s[i] = sep}
        n == Cardinality(P)
        pos(k) == CHOOSE i \in P : Cardinality({j \in P : j < i}) = k - 1
        first(k) == IF k = 1 THEN 1 ELSE pos(k - 1) + 1
        last(k) == IF k = n + 1 THEN Len(s) ELSE pos(k) - 1
    IN [k \in 1..(n + 1) |-> SubSeq(s, first(k), last(k))]

(***************************************************************************)
(* A data bag item (chef.DataBagItem, an interface{}): a string, an object *)
(* with members, or a value encoding/json cannot serialize.                *)
(***************************************************************************)
Str(x) == [kind |-> "string", s |-> x, m |-> {}]
Obj(members) == [kind |-> "object", s |-> "", m |-> members]
Unsupported == [kind |-> "unsupported", s |-> "", m |-> {}]
Member(k, v) == [k |-> k, v |-> v]

\* bytes: JSON text is a sequence of tokens, other text is one "text" token
Tok(t, s) == [t |-> t, s |-> s]

\* the member names the items use, in the byte order encoding/json sorts them in
JSONKeyOrder == <<"id", "inner", "nested", "some_key", "some_password">>
KeyRank(k) == CHOOSE i \in 1..Len(JSONKeyOrder) : JSONKeyOrder[i] = k

SortedKeys(members) ==
    LET ks == {mb.k : mb \in members}
    IN [i \in 1..Cardinality(ks) |->
           CHOOSE k \in ks : Cardinality({j \in ks : KeyRank(j) < KeyRank(k)}) = i - 1]

ValueAt(v, k) == (CHOOSE mb \in v.m : mb.k = k).v

RECURSIVE Supported(_)
Supported(v) == v.kind # "unsupported" /\ \A mb \in v.m : Supported(mb.v)

RECURSIVE MarshalBytes(_)
MarshalBytes(v) ==
    IF v.kind = "string" THEN <<Tok("str", v.s)>>
    ELSE LET ks == SortedKeys(v.m)
             mem[i \in 0..Len(ks)] ==
                 IF i = 0 THEN <<>>
                 ELSE mem[i - 1]
                      \o (IF i > 1 THEN <<Tok(",", "")>> ELSE <<>>)
                      \o <<Tok("str", ks[i]), Tok(":", "")>>
                      \o MarshalBytes(ValueAt(v, ks[i]))
         IN <<Tok("{", "")>> \o mem[Len(ks)] \o <<Tok("}", "")>>

\* json.Marshal
Marshal(v) ==
    IF Supported(v)
    THEN [err |-> NoError, bytes |-> MarshalBytes(v)]
    ELSE [err |-> Errorf("json: unsupported type"), bytes |-> <<>>]

(***************************************************************************)
(* gjson.Get for a path of member names joined by ".": the JSON text is    *)
(* parsed and the path is walked from the root.                            *)
(***************************************************************************)
RECURSIVE ParseValue(_, _)
RECURSIVE ParseMembers(_, _, _)
ParseValue(toks, i) ==
    IF toks[i].t = "str" THEN [v |-> Str(toks[i].s), next |-> i + 1]
    ELSE IF toks[i + 1].t = "}" THEN [v |-> Obj({}), next |-> i + 2]
    ELSE ParseMembers(toks, i + 1, {})

ParseMembers(toks, i, acc) ==
    LET val == ParseValue(toks, i + 2)
        acc2 == acc \cup {Member(toks[i].s, val.v)}
    IN IF toks[val.next].t = ","
       THEN ParseMembers(toks, val.next + 1, acc2)
       ELSE [v |-> Obj(acc2), next |-> val.next + 1]

gjsonGet(jsonString, path) ==
    LET segs == Split(path, ".")
        walk[i \in 0..Len(segs)] ==
            IF i = 0 THEN [exists |-> TRUE, v |-> ParseValue(jsonString, 1).v]
            ELSE LET at == walk[i - 1]
                 IN IF at.exists /\ \E mb \in at.v.m : <<mb.k>> = segs[i]
                    THEN [exists |-> TRUE,
                          v |-> (CHOOSE mb \in at.v.m : <<mb.k>> = segs[i]).v]
                    ELSE [exists |-> FALSE, v |-> Str("")]
    IN walk[Len(segs)]

\* gjson's Result.String: the string itself, or the raw JSON of an object
ResultString(r) ==
    IF r.v.kind = "string" THEN <<Tok("text", r.v.s)>> ELSE MarshalBytes(r.v)

(***************************************************************************)
(* The Chef server behind chef.DataBagService: what ListItems and GetItem  *)
(* answer. An item the server lists need not be fetchable.                 *)
(***************************************************************************)
item01 == Obj({Member("id", Str("databag01-item01")),
               Member("some_key", Str("fe7f29ede349519a1")),
               Member("nested", Obj({Member("inner", Str("dolphin_123zc"))}))})
item02 == Obj({Member("id", Str("databag01-item02")),
               Member("some_password", Str(""))})

ChefServer ==
    { [bag |-> <<"databag01">>, item |-> <<"item01">>,
       err |-> NoError, content |-> item01],
      [bag |-> <<"databag01">>, item |-> <<"item02">>,
       err |-> NoError, content |-> item02],
      [bag |-> <<"databag02">>, item |-> <<"item01">>,
       err |-> NoError, content |-> item01],
      [bag |-> <<"databag02">>, item |-> <<"item03">>,
       err |-> Errorf("Get https://chef.com/organizations/dev/data/databag02/item03: connection reset"),
       content |-> Str("")],
      [bag |-> <<"databag03">>, item |-> <<"item01">>,
       err |-> NoError, content |-> Unsupported] }

\* chef.DataBagService.GetItem
GetItem(bag, item) ==
    LET found == {e \in ChefServer : e.bag = bag /\ e.item = item}
    IN IF found = {}
       THEN [err |-> Errorf("https://chef.com/organizations/dev/data: 404"), item |-> Str("")]
       ELSE LET e == CHOOSE x \in found : TRUE IN [err |-> e.err, item |-> e.content]

\* chef.DataBagService.ListItems: the names of the items of the bag
ListItems(bag) ==
    LET found == {e \in ChefServer : e.bag = bag}
    IN IF found = {}
       THEN [err |-> Errorf("https://chef.com/organizations/dev/data: 404"), names |-> {}]
       ELSE [err |-> NoError, names |-> {e.item : e \in found}]

(***************************************************************************)
(* More error messages (part_001:385-391)                                  *)
(***************************************************************************)
errUninitalizedChefProvider == "provider chef is not initialized"
errNoDatabagItemFound == "no Databag Item found"
errNoDatabagItemPropertyFound == "property is not found in Databag item"
errUnableToConvertToJSON == "unable to convert databagItem into JSON"
errInvalidFormat == "invalid format. Expected value 'databagName/databagItemName'"

\* utils.IsNil of the provider's data bag service: no client stands behind it
IsNil(service) == service.client = Nil

\* getPropertyFromDatabagItem answering the whole item for an absent property
getPropertyFromDatabagItem_ItemForAbsent(jsonString, propertyName) ==
    LET result == gjsonGet(jsonString, propertyName)
    IN IF ~result.exists
       THEN [data |-> Ref(jsonString), err |-> NoError]
       ELSE [data |-> Ref(ResultString(result)), err |-> NoError]

(***************************************************************************)
(* getPropertyFromDatabagItem (part_001:521-528)                           *)
(***************************************************************************)
getPropertyFromDatabagItem(jsonString, propertyName) ==
    LET result == gjsonGet(jsonString, propertyName)
    IN IF ~result.exists
       THEN [data |-> Nil, err |-> Errorf(errNoDatabagItemPropertyFound)]
       ELSE [data |-> Ref(ResultString(result)), err |-> NoError]

\* getSingleDatabagItem answering the id of the item when no property is asked for
getSingleDatabagItem_IdOnly(prov, dataBagName, databagItemName, propertyName) ==
    LET got == GetItem(dataBagName, databagItemName)
        t == <<[call |-> "DataBags.GetItem",
                arg |-> [client |-> prov.client, bag |-> dataBagName,
                         item |-> databagItemName]]>>
    IN IF got.err # NoError
       THEN [data |-> Nil, err |-> Errorf(errNoDatabagItemFound), trace |-> t]
       ELSE LET js == Marshal(got.item)
            IN IF js.err # NoError
               THEN [data |-> Nil, err |-> Errorf(errUnableToConvertToJSON), trace |-> t]
               ELSE IF propertyName # EmptyString
                    THEN LET r == getPropertyFromDatabagItem(js.bytes, propertyName)
                         IN [data |-> r.data, err |-> r.err, trace |-> t]
                    ELSE LET r == getPropertyFromDatabagItem(js.bytes, <<"id">>)
                         IN [data |-> r.data, err |-> r.err, trace |-> t]

\* getSingleDatabagItem passing the error of the fetch on
getSingleDatabagItem_ErrorWrapped(prov, dataBagName, databagItemName, propertyName) ==
    LET got == GetItem(dataBagName, databagItemName)
        t == <<[call |-> "DataBags.GetItem",
                arg |-> [client |-> prov.client, bag |-> dataBagName,
                         item |-> databagItemName]]>>
    IN IF got.err # NoError
       THEN [data |-> Nil, err |-> Wrapf(errNoDatabagItemFound, got.err), trace |-> t]
       ELSE LET js == Marshal(got.item)
            IN IF js.err # NoError
               THEN [data |-> Nil, err |-> Errorf(errUnableToConvertToJSON), trace |-> t]
               ELSE IF propertyName # EmptyString
                    THEN LET r == getPropertyFromDatabagItem(js.bytes, propertyName)
                         IN [data |-> r.data, err |-> r.err, trace |-> t]
                    ELSE [data |-> Ref(js.bytes), err |-> NoError, trace |-> t]

\* getSingleDatabagItem fetching a second time when the fetch failed
getSingleDatabagItem_FetchRetried(prov, dataBagName, databagItemName, propertyName) ==
    LET got == GetItem(dataBagName, databagItemName)
        t == <<[call |-> "DataBags.GetItem",
                arg |-> [client |-> prov.client, bag |-> dataBagName,
                         item |-> databagItemName]]>>
    IN IF got.err # NoError
       THEN [data |-> Nil, err |-> Errorf(errNoDatabagItemFound), trace |-> t \o t]
       ELSE LET js == Marshal(got.item)
            IN IF js.err # NoError
               THEN [data |-> Nil, err |-> Errorf(errUnableToConvertToJSON), trace |-> t]
               ELSE IF propertyName # EmptyString
                    THEN LET r == getPropertyFromDatabagItem(js.bytes, propertyName)
                         IN [data |-> r.data, err |-> r.err, trace |-> t]
                    ELSE [data |-> Ref(js.bytes), err |-> NoError, trace |-> t]

(***************************************************************************)
(* getSingleDatabagItem (part_001:503-519)                                 *)
(***************************************************************************)
getSingleDatabagItem(prov, dataBagName, databagItemName, propertyName) ==
    LET got == GetItem(dataBagName, databagItemName)
        t == <<[call |-> "DataBags.GetItem",
                arg |-> [client |-> prov.client, bag |-> dataBagName,
                         item |-> databagItemName]]>>
    IN IF got.err # NoError
       THEN [data |-> Nil, err |-> Errorf(errNoDatabagItemFound), trace |-> t]
       ELSE LET js == Marshal(got.item)
            IN IF js.err # NoError
               THEN [data |-> Nil, err |-> Errorf(errUnableToConvertToJSON), trace |-> t]
               ELSE IF propertyName # EmptyString
                    THEN LET r == getPropertyFromDatabagItem(js.bytes, propertyName)
                         IN [data |-> r.data, err |-> r.err, trace |-> t]
                    ELSE [data |-> Ref(js.bytes), err |-> NoError, trace |-> t]

\* GetSecret splitting the key before it looks at the provider
GetSecret_ParseFirst(prov, r) ==
    LET nameSplitted == Split(r.Key, "/")
        databagName == IF Len(nameSplitted) > 1 THEN nameSplitted[1] ELSE EmptyString
        databagItem == IF Len(nameSplitted) > 1 THEN nameSplitted[2] ELSE EmptyString
    IN IF Len(databagName) = 0 \/ Len(databagItem) = 0
       THEN [data |-> Nil, err |-> Errorf(errInvalidFormat), trace |-> <<>>]
       ELSE IF IsNil(prov)
            THEN [data |-> Nil, err |-> Errorf(errUninitalizedChefProvider), trace |-> <<>>]
            ELSE getSingleDatabagItem(prov, databagName, databagItem, r.Property)

\* GetSecret taking the first and the last segment, however many there are
GetSecret_KeyAsBagAndItem(prov, r) ==
    IF IsNil(prov)
    THEN [data |-> Nil, err |-> Errorf(errUninitalizedChefProvider), trace |-> <<>>]
    ELSE LET nameSplitted == Split(r.Key, "/")
             databagName == nameSplitted[1]
             databagItem == nameSplitted[Len(nameSplitted)]
         IN IF Len(databagName) # 0 /\ Len(databagItem) # 0
            THEN getSingleDatabagItem(prov, databagName, databagItem, r.Property)
            ELSE [data |-> Nil, err |-> Errorf(errInvalidFormat), trace |-> <<>>]

\* GetSecret answering nothing, and no error, for a malformed key
GetSecret_FormatErrorDropped(prov, r) ==
    IF IsNil(prov)
    THEN [data |-> Nil, err |-> Errorf(errUninitalizedChefProvider), trace |-> <<>>]
    ELSE LET nameSplitted == Split(r.Key, "/")
             databagName == IF Len(nameSplitted) > 1 THEN nameSplitted[1] ELSE EmptyString
             databagItem == IF Len(nameSplitted) > 1 THEN nameSplitted[2] ELSE EmptyString
         IN IF Len(databagName) # 0 /\ Len(databagItem) # 0
            THEN getSingleDatabagItem(prov, databagName, databagItem, r.Property)
            ELSE [data |-> Nil, err |-> NoError, trace |-> <<>>]

(***************************************************************************)
(* GetSecret (part_001:481-501)                                            *)
(***************************************************************************)
GetSecret(prov, r) ==
    IF IsNil(prov)
    THEN [data |-> Nil, err |-> Errorf(errUninitalizedChefProvider), trace |-> <<>>]
    ELSE LET nameSplitted == Split(r.Key, "/")
             databagName == IF Len(nameSplitted) > 1 THEN nameSplitted[1] ELSE EmptyString
             databagItem == IF Len(nameSplitted) > 1 THEN nameSplitted[2] ELSE EmptyString
         IN IF Len(databagName) # 0 /\ Len(databagItem) # 0
            THEN getSingleDatabagItem(prov, databagName, databagItem, r.Property)
            ELSE [data |-> Nil, err |-> Errorf(errInvalidFormat), trace |-> <<>>]

\* GetSecretMap storing the first item it fetched under every name
GetSecretMap_FirstItemForAll(prov, r, order) ==
    IF IsNil(prov)
    THEN [secretMap |-> Nil, err |-> Errorf(errUninitalizedChefProvider), trace |-> <<>>]
    ELSE LET databagName == r.Key
             dataItems == ListItems(databagName)
             t0 == <<[call |-> "DataBags.ListItems",
                      arg |-> [client |-> prov.client, bag |-> databagName,
                               item |-> EmptyString]]>>
         IN IF dataItems.err # NoError
            THEN [secretMap |-> Nil, err |-> Errorf(errNoDatabagItemFound), trace |-> t0]
            ELSE LET fetch(i) == getSingleDatabagItem(prov, databagName, order[i], EmptyString)
                     calls[i \in 0..Len(order)] ==
                         IF i = 0 THEN t0 ELSE calls[i - 1] \o fetch(i).trace
                 IN [secretMap |->
                         Ref([n \in dataItems.names |->
                                 getSingleDatabagItem(prov, databagName, order[1], EmptyString).data]),
                     err |-> NoError,
                     trace |-> calls[Len(order)]]

\* GetSecretMap answering an empty map when the listing failed
GetSecretMap_ListErrorIgnored(prov, r, order) ==
    IF IsNil(prov)
    THEN [secretMap |-> Nil, err |-> Errorf(errUninitalizedChefProvider), trace |-> <<>>]
    ELSE LET databagName == r.Key
             dataItems == ListItems(databagName)
             t0 == <<[call |-> "DataBags.ListItems",
                      arg |-> [client |-> prov.client, bag |-> databagName,
                               item |-> EmptyString]]>>
         IN IF dataItems.err # NoError
            THEN [secretMap |-> Ref(<<>>), err |-> NoError, trace |-> t0]
            ELSE LET fetch(i) == getSingleDatabagItem(prov, databagName, order[i], EmptyString)
                     calls[i \in 0..Len(order)] ==
                         IF i = 0 THEN t0 ELSE calls[i - 1] \o fetch(i).trace
                 IN [secretMap |->
                         Ref([n \in dataItems.names |->
                                 getSingleDatabagItem(prov, databagName, n, EmptyString).data]),
                     err |-> NoError,
                     trace |-> calls[Len(order)]]

(***************************************************************************)
(* GetSecretMap (part_001:531-551). Go ranges over the listed names in no  *)
(* fixed order: order is the order this call takes them in.                *)
(***************************************************************************)
GetSecretMap(prov, r, order) ==
    IF IsNil(prov)
    THEN [secretMap |-> Nil, err |-> Errorf(errUninitalizedChefProvider), trace |-> <<>>]
    ELSE LET databagName == r.Key
             dataItems == ListItems(databagName)
             t0 == <<[call |-> "DataBags.ListItems",
                      arg |-> [client |-> prov.client, bag |-> databagName,
                               item |-> EmptyString]]>>
         IN IF dataItems.err # NoError
            THEN [secretMap |-> Nil, err |-> Errorf(errNoDatabagItemFound), trace |-> t0]
            ELSE LET fetch(i) == getSingleDatabagItem(prov, databagName, order[i], EmptyString)
                     calls[i \in 0..Len(order)] ==
                         IF i = 0 THEN t0 ELSE calls[i - 1] \o fetch(i).trace
                 IN [secretMap |->
                         Ref([n \in dataItems.names |->
                                 getSingleDatabagItem(prov, databagName, n, EmptyString).data]),
                     err |-> NoError,
                     trace |-> calls[Len(order)]]

\* the orders a range over the listed names of a bag may take
RangeOrders(prov, r) ==
    LET names == IF IsNil(prov) THEN {} ELSE ListItems(r.Key).names
    IN {o \in [1..Cardinality(names) -> names] : \A i, j \in 1..Cardinality(names) : o[i] = o[j] => i = j}

\* GetAllSecrets looking at the provider first
GetAllSecrets_ProviderChecked(prov, find) ==
    IF IsNil(prov)
    THEN [secretMap |-> Nil, err |-> Errorf(errUninitalizedChefProvider), trace |-> <<>>]
    ELSE [secretMap |-> Nil, err |-> Errorf("dataFrom.find not suppported"), trace |-> <<>>]

(***************************************************************************)
(* GetAllSecrets (part_001:476-478)                                        *)
(***************************************************************************)
GetAllSecrets(prov, find) ==
    [secretMap |-> Nil, err |-> Errorf("dataFrom.find not suppported"), trace |-> <<>>]

(***************************************************************************)
(* Close (part_001:453-456)                                                *)
(***************************************************************************)
Close(prov) == [err |-> NoError, trace |-> <<>>]

(***************************************************************************)
(* Validate (part_001:458-472): the fetch of the principal is commented    *)
(* out.                                                                    *)
(***************************************************************************)
ValidationResultReady == "Ready"
ValidationResultError == "Error"
NoValidationResult == ""

Validate(prov) == [result |-> ValidationResultReady, err |-> NoError, trace |-> <<>>]

(***************************************************************************)
(* Run-time panics: a nil pointer that is followed, an index past the end. *)
(***************************************************************************)
NilDereference == "invalid memory address or nil pointer dereference"
IndexOutOfRange == "index out of range"

\* the pointers from the store to the auth block, up to the first nil one
pointerChain(s) ==
    IF s = Nil THEN <<s>>
    ELSE LET storeSpec == Deref(s).Spec IN
    IF storeSpec = Nil THEN <<s, storeSpec>>
    ELSE LET provider == Deref(storeSpec).Provider IN
    IF provider = Nil THEN <<s, storeSpec, provider>>
    ELSE LET chefProvider == Deref(provider).Chef IN
    IF chefProvider = Nil THEN <<s, storeSpec, provider, chefProvider>>
    ELSE <<s, storeSpec, provider, chefProvider, Deref(chefProvider).Auth>>

\* getChefProvider follows the first four pointers of the chain whatever the fields are,
\* and the auth pointer (part_001:596) once name and URL have passed
getChefProviderFollows(s) ==
    LET chain == pointerChain(s)
    IN {i \in 1..Len(chain) :
           i = 5 => LET cp == Deref(chain[4])
                    IN /\ cp.UserName # EmptyString
                       /\ cp.ServerURL # EmptyString
                       /\ ParseRequestURI(cp.ServerURL) = NoError}

\* the pointers getChefProvider tests for nil before it follows them
\* (part_001:568, 572, 576, 580, 593)
getChefProviderTests == {1, 2, 3, 4, 5}

getChefProviderFaults(s) ==
    {NilDereference : i \in {j \in getChefProviderFollows(s) :
                                pointerChain(s)[j] = Nil /\ j \notin getChefProviderTests}}

\* ValidateStore (part_001:560) and NewClient (part_001:426) follow the auth pointer of
\* the provider getChefProvider returned without an error
storeFaults(s) ==
    IF getChefProviderFaults(s) # {} THEN getChefProviderFaults(s)
    ELSE LET g == getChefProvider(s)
         IN IF g.err # NoError THEN {}
            ELSE IF g.chefProvider = Nil THEN {NilDereference}
            ELSE IF Deref(g.chefProvider).Auth = Nil THEN {NilDereference}
            ELSE {}

\* GetSecret of the earlier revision (part_001:184-200): the second segment is read
\* whatever the number of segments
GetSecretFaults_SecondSegmentUnguarded(prov, r) ==
    IF IsNil(prov) THEN {}
    ELSE LET nameSplitted == Split(r.Key, "/")
             indexed == {1, 2}
         IN {IndexOutOfRange : i \in {j \in indexed : j > Len(nameSplitted)}}

\* GetSecret reads nameSplitted[0] and nameSplitted[1] (part_001:492-493) under
\* len(nameSplitted) > 1
GetSecretFaults(prov, r) ==
    IF IsNil(prov) THEN {}
    ELSE LET nameSplitted == Split(r.Key, "/")
             indexed == IF Len(nameSplitted) > 1 THEN {1, 2} ELSE {}
         IN {IndexOutOfRange : i \in {j \in indexed : j > Len(nameSplitted)}}

(***************************************************************************)
(* Bounds and the stores of the life-cycle specification                   *)
(***************************************************************************)
\* NewClient is called while fewer than MaxHandles handles have been handed out
MaxHandles == 2

Namespaces == {authNamespace, callerNamespace}

\* in how many fields a store differs from the valid store of its kind
Defects(s) ==
    IF ~HasChefProvider(s) THEN 1
    ELSE LET one(b) == IF b THEN 1 ELSE 0
         IN one(ChefOf(s).UserName # name) + one(ChefOf(s).ServerURL # baseURL)
            + (IF ChefOf(s).Auth = Nil THEN 1
               ELSE one(SecretKeyOf(s).Name # authName) + one(SecretKeyOf(s).Key # authKey)
                    + one(ValidateSecretSelector(s, SecretKeyOf(s)) # NoError))

LifecycleStores == {s \in Stores : Defects(s) <= 1}

\* the remote references of the calls: ExternalSecretDataRemoteRef
makeRef(k, p) == [Key |-> k, Property |-> p]
NoRef == makeRef(EmptyString, EmptyString)

\* keys: no "/", one "/" with and without an empty side, two "/"
Keys ==
    { EmptyString,
      <<"databag01">>,
      <<"databag01", "/">>,
      <<"/", "item01">>,
      <<"databag01", "/", "item01">>,
      <<"databag01", "/", "item02">>,
      <<"databag01", "/", "item09">>,
      <<"databag02", "/", "item03">>,
      <<"databag03", "/", "item01">>,
      <<"databag01", "/", "item01", "/", "some_key">>,
      <<"databag01", "/", "/", "item01">> }

\* properties: none, a string member, an object member, a nested member, absent ones
Properties ==
    { EmptyString,
      <<"some_key">>,
      <<"some_password">>,
      <<"nested">>,
      <<"nested", ".", "inner">>,
      <<"findProperty">> }

\* the find specifications GetAllSecrets is called with: ExternalSecretFind
Finds ==
    { [Path |-> Nil, Name |-> Nil, Tags |-> {}],
      [Path |-> Nil, Name |-> Ref("item.*"), Tags |-> {}],
      [Path |-> Ref(<<"databag01">>), Name |-> Nil, Tags |-> {"env"}] }

\* what the server may answer to a fetch of the principal
UsersGetAnswers == {NoError, Errorf("401 Unauthorized")}

\* the keys GetSecretMap is called with: bags of the server and others
BagKeys == { <<"databag01">>, <<"databag02">>, <<"databag03">>, <<"databag09">>, EmptyString }

(***************************************************************************)
(* State machine                                                           *)
(***************************************************************************)
Init ==
    /\ ChefInterface = ZeroDataBagService
    /\ handles = <<>>
    /\ kube \in KubeWorlds
    /\ opName = "init"
    /\ store = Nil
    /\ namespace = ""
    /\ ret = Nil
    /\ err = NoError
    /\ trace = <<>>
    /\ remoteRef = NoRef
    /\ secretData = Nil
    /\ secretMap = Nil
    /\ validationResult = NoValidationResult
    /\ usersGet = NoError
    /\ fault = {}

\* the call op(s, ns, r) ended in the panics f and returned nothing
Panicked(op, s, ns, r, f) ==
    /\ opName' = op
    /\ store' = s
    /\ namespace' = ns
    /\ remoteRef' = r
    /\ fault' = f
    /\ ret' = Nil
    /\ err' = NoError
    /\ trace' = <<>>
    /\ secretData' = Nil
    /\ secretMap' = Nil
    /\ validationResult' = NoValidationResult
    /\ usersGet' = NoError
    /\ UNCHANGED <<ChefInterface, handles, kube>>

CallValidateStore(S) ==
    \E s \in S :
        IF storeFaults(s) # {}
        THEN Panicked("ValidateStore", s, "", NoRef, storeFaults(s))
        ELSE
        LET r == ValidateStore(s) IN
        /\ opName' = "ValidateStore"
        /\ store' = s
        /\ namespace' = ""
        /\ ret' = Nil
        /\ err' = r.err
        /\ trace' = r.trace
        /\ remoteRef' = NoRef
        /\ secretData' = Nil
        /\ secretMap' = Nil
        /\ validationResult' = NoValidationResult
        /\ usersGet' = NoError
        /\ fault' = {}
        /\ UNCHANGED <<ChefInterface, handles, kube>>

CallNewClient(S) ==
    /\ Len(handles) < MaxHandles
    /\ \E s \in S, ns \in Namespaces :
        IF storeFaults(s) # {}
        THEN Panicked("NewClient", s, ns, NoRef, storeFaults(s))
        ELSE
        LET r == NewClient(ChefInterface, s, kube, ns) IN
        /\ opName' = "NewClient"
        /\ store' = s
        /\ namespace' = ns
        /\ ret' = r.ret
        /\ err' = r.err
        /\ trace' = r.trace
        /\ ChefInterface' = r.ChefInterface
        /\ handles' = IF r.ret # Nil
                      THEN Append(handles, r.ChefInterface.client)
                      ELSE handles
        /\ remoteRef' = NoRef
        /\ secretData' = Nil
        /\ secretMap' = Nil
        /\ validationResult' = NoValidationResult
        /\ usersGet' = NoError
        /\ fault' = {}
        /\ UNCHANGED kube

CallGetSecret ==
    \E k \in Keys, p \in Properties :
        IF GetSecretFaults(ChefInterface, makeRef(k, p)) # {}
        THEN Panicked("GetSecret", Nil, "", makeRef(k, p),
                      GetSecretFaults(ChefInterface, makeRef(k, p)))
        ELSE
        LET r == GetSecret(ChefInterface, makeRef(k, p)) IN
        /\ opName' = "GetSecret"
        /\ store' = Nil
        /\ namespace' = ""
        /\ ret' = Nil
        /\ err' = r.err
        /\ trace' = r.trace
        /\ remoteRef' = makeRef(k, p)
        /\ secretData' = r.data
        /\ secretMap' = Nil
        /\ validationResult' = NoValidationResult
        /\ usersGet' = NoError
        /\ fault' = {}
        /\ UNCHANGED <<ChefInterface, handles, kube>>

CallGetSecretMap ==
    \E k \in BagKeys :
        \E order \in RangeOrders(ChefInterface, makeRef(k, EmptyString)) :
            LET r == GetSecretMap(ChefInterface, makeRef(k, EmptyString), order) IN
            /\ opName' = "GetSecretMap"
            /\ store' = Nil
            /\ namespace' = ""
            /\ ret' = Nil
            /\ err' = r.err
            /\ trace' = r.trace
            /\ remoteRef' = makeRef(k, EmptyString)
            /\ secretData' = Nil
            /\ secretMap' = r.secretMap
            /\ validationResult' = NoValidationResult
            /\ usersGet' = NoError
            /\ fault' = {}
            /\ UNCHANGED <<ChefInterface, handles, kube>>

\* GetAllSecrets dropping the client of the provider
CallGetAllSecrets_ProviderReset ==
    \E find \in Finds :
        LET r == GetAllSecrets(ChefInterface, find) IN
        /\ opName' = "GetAllSecrets"
        /\ store' = Nil
        /\ namespace' = ""
        /\ ret' = Nil
        /\ err' = r.err
        /\ trace' = r.trace
        /\ remoteRef' = NoRef
        /\ secretData' = Nil
        /\ secretMap' = r.secretMap
        /\ validationResult' = NoValidationResult
        /\ usersGet' = NoError
        /\ fault' = {}
        /\ ChefInterface' = ZeroDataBagService
        /\ UNCHANGED <<handles, kube>>

\* Close releasing the client of the provider
CallClose_ClientReleased ==
    LET r == Close(ChefInterface) IN
    /\ opName' = "Close"
    /\ store' = Nil
    /\ namespace' = ""
    /\ ret' = Nil
    /\ err' = r.err
    /\ trace' = r.trace
    /\ remoteRef' = NoRef
    /\ secretData' = Nil
    /\ secretMap' = Nil
    /\ validationResult' = NoValidationResult
    /\ usersGet' = NoError
    /\ fault' = {}
    /\ ChefInterface' = ZeroDataBagService
    /\ UNCHANGED <<handles, kube>>

CallGetAllSecrets ==
    \E find \in Finds :
        LET r == GetAllSecrets(ChefInterface, find) IN
        /\ opName' = "GetAllSecrets"
        /\ store' = Nil
        /\ namespace' = ""
        /\ ret' = Nil
        /\ err' = r.err
        /\ trace' = r.trace
        /\ remoteRef' = NoRef
        /\ secretData' = Nil
        /\ secretMap' = r.secretMap
        /\ validationResult' = NoValidationResult
        /\ usersGet' = NoError
        /\ fault' = {}
        /\ UNCHANGED <<ChefInterface, handles, kube>>

CallClose ==
    LET r == Close(ChefInterface) IN
    /\ opName' = "Close"
    /\ store' = Nil
    /\ namespace' = ""
    /\ ret' = Nil
    /\ err' = r.err
    /\ trace' = r.trace
    /\ remoteRef' = NoRef
    /\ secretData' = Nil
    /\ secretMap' = Nil
    /\ validationResult' = NoValidationResult
    /\ usersGet' = NoError
    /\ fault' = {}
    /\ UNCHANGED <<ChefInterface, handles, kube>>

CallValidate ==
    \E answer \in UsersGetAnswers :
        LET r == Validate(ChefInterface) IN
        /\ opName' = "Validate"
        /\ store' = Nil
        /\ namespace' = ""
        /\ ret' = Nil
        /\ err' = r.err
        /\ trace' = r.trace
        /\ remoteRef' = NoRef
        /\ secretData' = Nil
        /\ secretMap' = Nil
        /\ validationResult' = r.result
        /\ usersGet' = answer
        /\ fault' = {}
        /\ UNCHANGED <<ChefInterface, handles, kube>>

Next ==
    \/ CallValidateStore(LifecycleStores)
    \/ CallNewClient(LifecycleStores)

Spec == Init /\ [][Next]_vars

\* ValidateStore alone, applied to every store
NextValidate == CallValidateStore(Stores)

SpecValidate == Init /\ [][NextValidate]_vars

\* the resolver: secrets are read from a provider that valid stores initialize
ValidStores == {s \in Stores : Defects(s) = 0}

\* the valid stores and the stores in which a pointer is nil
ResolveStores == ValidStores \cup {s \in LifecycleStores : Len(pointerChain(s)) < 5 \/ ChefOf(s).Auth = Nil}

NextResolve ==
    \/ CallValidateStore(ResolveStores)
    \/ CallNewClient(ResolveStores)
    \/ CallGetSecret
    \/ CallGetSecretMap
    \/ CallGetAllSecrets
    \/ CallClose
    \/ CallValidate

SpecResolve == Init /\ [][NextResolve]_vars

(***************************************************************************)
(* Vocabulary of the properties                                            *)
(***************************************************************************)
\* [a-z0-9_-]*
MatchesNamePattern(n) == \A i \in 1..Len(n) : n[i] \in LowerCase \cup Digit \cup {"_", "-"}

errClusterScopeRequiresNamespace == "cluster scope requires namespace"
errNamespaceNotAllowed == "namespace not allowed with namespaced SecretStore"

\* the checks of getChefProvider, stated on the store
FieldChecksPass(s) ==
    /\ HasChefProvider(s)
    /\ ChefOf(s).UserName # EmptyString
    /\ ChefOf(s).ServerURL # EmptyString
    /\ ParseRequestURI(ChefOf(s).ServerURL) = NoError
    /\ ChefOf(s).Auth # Nil
    /\ SecretKeyOf(s).Key # ""

SelectorMatches(s) ==
    (Deref(s).Kind = ClusterSecretStoreKind) <=> (SecretKeyOf(s).Namespace # Nil)

\* the rules of the validation contract, in its order; NoError when none is violated
FirstViolatedRule(s) ==
    IF s = Nil THEN Errorf(errMissingStore)
    ELSE IF Deref(s).Spec = Nil THEN Errorf(errMisingStoreSpec)
    ELSE IF Deref(Deref(s).Spec).Provider = Nil THEN Errorf(errMissingProvider)
    ELSE IF ~HasChefProvider(s) THEN Errorf(errMissingChefProvider)
    ELSE IF ChefOf(s).UserName = EmptyString THEN Errorf(errMissingName)
    ELSE IF ChefOf(s).ServerURL = EmptyString THEN Errorf(errMissingBaseURL)
    ELSE IF ParseRequestURI(ChefOf(s).ServerURL) # NoError
         THEN Wrapf(errChefInvalidURL, ParseRequestURI(ChefOf(s).ServerURL))
    ELSE IF ~HasSuffix(ChefOf(s).ServerURL, "/") THEN Errorf(errServerURLNoEndSlash)
    ELSE IF ~MatchesNamePattern(ChefOf(s).UserName) THEN Errorf(errChefInvalidName)
    ELSE IF ChefOf(s).Auth = Nil THEN Errorf(errMissingAuth)
    ELSE IF SecretKeyOf(s).Key = "" THEN Errorf(errMissingSecretKey)
    ELSE IF ~SelectorMatches(s)
         THEN IF Deref(s).Kind = ClusterSecretStoreKind
              THEN Errorf(errClusterScopeRequiresNamespace)
              ELSE Errorf(errNamespaceNotAllowed)
    ELSE NoError

\* the required fields, and a store that is valid except that field f is missing
RequiredFields == {"name", "url", "auth", "key"}

MissingOnly(s, f) ==
    /\ HasChefProvider(s)
    /\ IF f = "name" THEN ChefOf(s).UserName = EmptyString
       ELSE ChefOf(s).UserName # EmptyString /\ MatchesNamePattern(ChefOf(s).UserName)
    /\ IF f = "url" THEN ChefOf(s).ServerURL = EmptyString
       ELSE /\ ParseRequestURI(ChefOf(s).ServerURL) = NoError
            /\ HasSuffix(ChefOf(s).ServerURL, "/")
    /\ IF f = "auth" THEN ChefOf(s).Auth = Nil
       ELSE /\ ChefOf(s).Auth # Nil
            /\ SecretKeyOf(s).Name # ""
            /\ (IF f = "key" THEN SecretKeyOf(s).Key = "" ELSE SecretKeyOf(s).Key # "")
            /\ SelectorMatches(s)

MissingFieldError(f) ==
    CASE f = "name" -> errMissingName
      [] f = "url" -> errMissingBaseURL
      [] f = "auth" -> errMissingAuth
      [] f = "key" -> errMissingSecretKey

\* every field of the store is valid, the server URL and the principal name aside
OtherFieldsValid(s) ==
    /\ HasChefProvider(s)
    /\ ChefOf(s).Auth # Nil
    /\ SecretKeyOf(s).Name # ""
    /\ SecretKeyOf(s).Key # ""
    /\ SelectorMatches(s)

(***************************************************************************)
(* Properties of ValidateStore, checked under SpecValidate                 *)
(***************************************************************************)
\* C1: ValidateStore returns success or the reason of the first violated rule in the
\* order store, spec, provider, chef provider, name, URL, URL parse, trailing slash,
\* name pattern, auth, secret key, namespace selector.
C1_FirstViolatedRuleReported ==
    opName = "ValidateStore" =>
        err = IF FirstViolatedRule(store) = NoError THEN NoError
              ELSE Wrapf(errChefStore, FirstViolatedRule(store))

\* C2: a store that is valid except that exactly one required field is missing is
\* rejected with the fixed error of that field.
C2_MissingFieldError ==
    opName = "ValidateStore" =>
        \A f \in RequiredFields :
            MissingOnly(store, f) => err = <<errChefStore, MissingFieldError(f)>>

C2_Witness ==
    /\ opName = "ValidateStore"
    /\ MissingOnly(store, "key")
    /\ err = <<errChefStore, errMissingSecretKey>>

\* C3: a store whose server URL does not end with "/" is rejected with the reason
\* "server URL does not end with slash(/)" when its other fields are valid.
C3_NoEndSlashRejected ==
    ( /\ opName = "ValidateStore"
      /\ OtherFieldsValid(store)
      /\ ChefOf(store).UserName # EmptyString
      /\ MatchesNamePattern(ChefOf(store).UserName)
      /\ ParseRequestURI(ChefOf(store).ServerURL) = NoError
      /\ ~HasSuffix(ChefOf(store).ServerURL, "/") )
    => err = <<errChefStore, errServerURLNoEndSlash>>

\* C4: a store whose principal name holds a character outside lowercase letters,
\* digits, hyphen and underscore is rejected.
C4_InvalidNameRejected ==
    ( /\ opName = "ValidateStore"
      /\ HasChefProvider(store)
      /\ ~MatchesNamePattern(ChefOf(store).UserName) )
    => err # NoError

\* C5: every store ValidateStore accepts has a non-empty principal name, server URL,
\* auth block, secret reference name and secret reference key.
C5_AcceptedStoreFieldsNonEmpty ==
    (opName = "ValidateStore" /\ err = NoError) =>
        /\ HasChefProvider(store)
        /\ ChefOf(store).UserName # EmptyString
        /\ ChefOf(store).ServerURL # EmptyString
        /\ ChefOf(store).Auth # Nil
        /\ SecretKeyOf(store).Name # ""
        /\ SecretKeyOf(store).Key # ""

SelectorReached == \E i \in 1..Len(trace) : trace[i].call = "utils.ValidateSecretSelector"

FixedReasons ==
    {errMissingStore, errMisingStoreSpec, errMissingProvider, errMissingChefProvider,
     errMissingName, errMissingBaseURL, errChefInvalidURL, errServerURLNoEndSlash,
     errChefInvalidName, errMissingAuth, errMissingSecretKey,
     errClusterScopeRequiresNamespace, errNamespaceNotAllowed}

\* C7: every error ValidateStore returns is one of the fixed reasons behind the prefix
\* "received invalid Chef SecretStore resource: ".
C7_ErrorsWrapped ==
    (opName = "ValidateStore" /\ err # NoError) =>
        /\ Len(err) >= 2
        /\ err[1] = errChefStore
        /\ err[2] \in FixedReasons

C7_Witness ==
    /\ opName = "ValidateStore"
    /\ err = <<errChefStore, errChefInvalidURL, "invalid URI for request">>

(***************************************************************************)
(* Properties of NewClient and of the handles, checked under Spec          *)
(***************************************************************************)
\* the client a call through the i-th handle reads: every handle is the registered
\* provider itself, so it reads the provider's ChefInterface
ClientReadThrough(i) == ChefInterface.client

\* C8: a handle NewClient has returned keeps reading the client built for it, whatever
\* is called on the provider afterwards, a later NewClient included.
C8_HandleKeepsItsClient ==
    \A i \in 1..Len(handles) : ClientReadThrough(i) = handles[i]

ClientBuilt == \E i \in 1..Len(trace) : trace[i].call = "chef.NewClient"

\* the secrets kube.Get finds for the store's reference in the namespace of the call
SecretsFound(s, ns) ==
    {o \in kube : o.Name = SecretKeyOf(s).Name /\ o.Namespace = ns}

\* C9: NewClient returns no handle and an error, and builds no client, when the secret
\* lookup fails or the secret holds no or an empty entry under the configured key.
C9_UnusableSecretFails ==
    (opName = "NewClient" /\ FieldChecksPass(store)) =>
        /\ SecretsFound(store, namespace) = {} =>
              /\ ret = Nil
              /\ Len(err) >= 1 /\ err[1] = errFetchK8sSecret
              /\ ~ClientBuilt
        /\ \A o \in SecretsFound(store, namespace) :
              (SecretKeyOf(store).Key \notin DOMAIN o.Data
                  \/ o.Data[SecretKeyOf(store).Key] = <<>>) =>
              /\ ret = Nil
              /\ err = <<errMissingSecretKey>>
              /\ ~ClientBuilt

C9_Witness ==
    /\ opName = "NewClient"
    /\ FieldChecksPass(store)
    /\ \E o \in SecretsFound(store, namespace) :
          /\ SecretKeyOf(store).Key \in DOMAIN o.Data
          /\ o.Data[SecretKeyOf(store).Key] = <<>>
    /\ ret = Nil
    /\ err = <<errMissingSecretKey>>

\* C10: when the client library rejects the configuration NewClient hands it, NewClient
\* returns no handle and an error that starts with "unable to create chef client".
C10_RejectedClientFails ==
    opName = "NewClient" =>
        \A i \in 1..Len(trace) :
            (trace[i].call = "chef.NewClient" /\ chefNewClient(trace[i].arg).err # NoError) =>
                /\ ret = Nil
                /\ Len(err) >= 2 /\ err[1] = errChefClient

C10_Witness ==
    /\ opName = "NewClient"
    /\ ClientBuilt
    /\ ret = Nil
    /\ err = <<errChefClient, "private key block size invalid">>

ExternalCalls == {"kube.Get", "chef.NewClient", "DataBags.GetItem", "DataBags.ListItems"}

NoExternalCall == \A i \in 1..Len(trace) : trace[i].call \notin ExternalCalls

Initialized == ChefInterface.client # Nil

SlashCount(k) == Cardinality({i \in 1..Len(k) : k[i] = "/"})

\* "databagName/databagItemName": one "/" with a name on either side
WellFormedKey(k) == SlashCount(k) = 1 /\ k[1] # "/" /\ k[Len(k)] # "/"

BagOf(k) == SubSeq(k, 1, (CHOOSE i \in 1..Len(k) : k[i] = "/") - 1)
ItemOf(k) == SubSeq(k, (CHOOSE i \in 1..Len(k) : k[i] = "/") + 1, Len(k))

\* what the server answers for the item a well-formed key names
Fetched(k) == GetItem(BagOf(k), ItemOf(k))

\* the member of an item a property names, <<>> when there is none
PropertyOf(v, p) ==
    LET names == SelectSeq(p, LAMBDA a : a # ".")
        at[i \in 0..Len(names)] ==
            IF i = 0 THEN <<v>>
            ELSE IF at[i - 1] = <<>> THEN <<>>
            ELSE LET ms == {mb \in at[i - 1][1].m : mb.k = names[i]}
                 IN IF ms = {} THEN <<>> ELSE <<(CHOOSE mb \in ms : TRUE).v>>
    IN at[Len(names)]

C13_NoSlashKeyRejected ==
    (opName = "GetSecret" /\ Initialized /\ SlashCount(remoteRef.Key) = 0) =>
        /\ err = <<errInvalidFormat>>
        /\ secretData = Nil
        /\ trace = <<>>

C13_Witness ==
    /\ opName = "GetSecret"
    /\ Initialized
    /\ remoteRef.Key = <<"databag01">>
    /\ err = <<errInvalidFormat>>
    /\ trace = <<>>

\* C14: GetSecret on an initialized provider fetches an item only when the key is two
\* non-empty segments around one "/"; every other key fails with the format error.
C14_OnlyTwoSegmentsFetch ==
    (opName = "GetSecret" /\ Initialized) =>
        /\ trace # <<>> => WellFormedKey(remoteRef.Key)
        /\ ~WellFormedKey(remoteRef.Key) => err = <<errInvalidFormat>>

\* C15: GetSecret with a well-formed key and no property returns the JSON text of the
\* item the server answered: the text reads back as that item, whole.
C15_WholeItemSerialized ==
    ( /\ opName = "GetSecret"
      /\ Initialized
      /\ WellFormedKey(remoteRef.Key)
      /\ remoteRef.Property = EmptyString
      /\ Fetched(remoteRef.Key).err = NoError
      /\ Supported(Fetched(remoteRef.Key).item) )
    => /\ err = NoError
       /\ secretData # Nil
       /\ Deref(secretData) = MarshalBytes(Fetched(remoteRef.Key).item)
       /\ ParseValue(Deref(secretData), 1).v = Fetched(remoteRef.Key).item

C15_Witness ==
    /\ opName = "GetSecret"
    /\ Initialized
    /\ remoteRef = makeRef(<<"databag01", "/", "item01">>, EmptyString)
    /\ err = NoError
    /\ secretData # Nil
    /\ ParseValue(Deref(secretData), 1).v = item01

\* C16: GetSecret with a well-formed key and a property returns the bare string of the
\* member the property names, fails with "property is not found in Databag item" and
\* no data when the item has no such member, and never returns the JSON text of the
\* whole item.
C16_PropertySelected ==
    ( /\ opName = "GetSecret"
      /\ Initialized
      /\ WellFormedKey(remoteRef.Key)
      /\ remoteRef.Property # EmptyString
      /\ Fetched(remoteRef.Key).err = NoError
      /\ Supported(Fetched(remoteRef.Key).item) )
    => LET found == PropertyOf(Fetched(remoteRef.Key).item, remoteRef.Property) IN
       /\ found = <<>> =>
             /\ err = <<errNoDatabagItemPropertyFound>>
             /\ secretData = Nil
       /\ (found # <<>> /\ found[1].kind = "string") =>
             /\ err = NoError
             /\ secretData = Ref(<<Tok("text", found[1].s)>>)
       /\ secretData # Ref(MarshalBytes(Fetched(remoteRef.Key).item))

C16_Witness ==
    /\ opName = "GetSecret"
    /\ Initialized
    /\ remoteRef = makeRef(<<"databag01", "/", "item01">>, <<"nested", ".", "inner">>)
    /\ err = NoError
    /\ secretData = Ref(<<Tok("text", "dolphin_123zc")>>)

\* C17: when the fetch of the item fails, GetSecret fails with exactly "no Databag Item
\* found" and no data, whatever the error of the fetch was, and nothing of that error
\* is in the error returned.
C17_FetchErrorFixed ==
    ( /\ opName = "GetSecret"
      /\ Initialized
      /\ WellFormedKey(remoteRef.Key)
      /\ Fetched(remoteRef.Key).err # NoError )
    => /\ err = <<errNoDatabagItemFound>>
       /\ secretData = Nil
       /\ \A i \in 1..Len(err), j \in 1..Len(Fetched(remoteRef.Key).err) :
             err[i] # Fetched(remoteRef.Key).err[j]

C17_Witness ==
    /\ opName = "GetSecret"
    /\ Initialized
    /\ remoteRef.Key = <<"databag02", "/", "item03">>
    /\ Fetched(remoteRef.Key).err # NoError
    /\ err = <<errNoDatabagItemFound>>

ListedNames(k) == {e.item : e \in {x \in ChefServer : x.bag = k}}

\* the key of GetSecret for an item of a bag
ItemKey(bag, item) == bag \o <<"/">> \o item

\* C19: when the listing and the fetch of every listed item succeed, GetSecretMap
\* returns a map whose keys are the listed names, each with the bytes GetSecret
\* returns for "bag/item" and no property.
C19_MapOfListedItems ==
    ( /\ opName = "GetSecretMap"
      /\ Initialized
      /\ ListedNames(remoteRef.Key) # {}
      /\ \A n \in ListedNames(remoteRef.Key) :
            GetSecret(ChefInterface, makeRef(ItemKey(remoteRef.Key, n), EmptyString)).err = NoError )
    => /\ err = NoError
       /\ secretMap # Nil
       /\ DOMAIN Deref(secretMap) = ListedNames(remoteRef.Key)
       /\ \A n \in ListedNames(remoteRef.Key) :
             Deref(secretMap)[n] =
                 GetSecret(ChefInterface, makeRef(ItemKey(remoteRef.Key, n), EmptyString)).data

C19_Witness ==
    /\ opName = "GetSecretMap"
    /\ Initialized
    /\ remoteRef.Key = <<"databag01">>
    /\ err = NoError
    /\ secretMap # Nil
    /\ DOMAIN Deref(secretMap) = {<<"item01">>, <<"item02">>}
    /\ Deref(secretMap)[<<"item01">>] # Deref(secretMap)[<<"item02">>]

\* C20: GetSecretMap skips an item whose fetch fails: the call succeeds, the name of
\* the item is no key of the map, and every key of the map holds the JSON text of an
\* item that was fetched.
C20_FailedItemSkipped ==
    (opName = "GetSecretMap" /\ Initialized /\ ListedNames(remoteRef.Key) # {}) =>
        /\ err = NoError
        /\ secretMap # Nil
        /\ \A n \in ListedNames(remoteRef.Key) :
              GetItem(remoteRef.Key, n).err # NoError => n \notin DOMAIN Deref(secretMap)
        /\ \A n \in DOMAIN Deref(secretMap) :
              /\ GetItem(remoteRef.Key, n).err = NoError
              /\ Deref(secretMap)[n] = Ref(MarshalBytes(GetItem(remoteRef.Key, n).item))

ItemFetches == {i \in 1..Len(trace) : trace[i].call = "DataBags.GetItem"}
Listings == {i \in 1..Len(trace) : trace[i].call = "DataBags.ListItems"}

\* C21: when the listing of the bag fails, GetSecretMap returns a nil map and the error
\* "no Databag Item found", and fetches no item.
C21_ListingFailureFails ==
    (opName = "GetSecretMap" /\ Initialized /\ ListedNames(remoteRef.Key) = {}) =>
        /\ secretMap = Nil
        /\ err = <<errNoDatabagItemFound>>
        /\ ItemFetches = {}

C21_Witness ==
    /\ opName = "GetSecretMap"
    /\ Initialized
    /\ remoteRef.Key = <<"databag09">>
    /\ Listings = {1}
    /\ secretMap = Nil
    /\ err = <<errNoDatabagItemFound>>

C23_CloseIsNoOp ==
    [][opName' = "Close" =>
          /\ err' = NoError
          /\ fault' = {}
          /\ \A k \in Keys, p \in Properties :
                GetSecret(ChefInterface', makeRef(k, p)) = GetSecret(ChefInterface, makeRef(k, p))
          /\ \A k \in BagKeys :
                /\ RangeOrders(ChefInterface', makeRef(k, EmptyString))
                       = RangeOrders(ChefInterface, makeRef(k, EmptyString))
                /\ \A order \in RangeOrders(ChefInterface, makeRef(k, EmptyString)) :
                      GetSecretMap(ChefInterface', makeRef(k, EmptyString), order)
                          = GetSecretMap(ChefInterface, makeRef(k, EmptyString), order)]_vars

C23_Witness ==
    /\ opName = "Close"
    /\ Initialized
    /\ err = NoError

\* C24: Validate fetches the current principal and reports the outcome: Ready and a
\* nil error when the fetch succeeds, Error and an error when it fails.
C24_ValidateReportsReachability ==
    opName = "Validate" =>
        /\ \E i \in 1..Len(trace) : trace[i].call = "Users.Get"
        /\ usersGet = NoError => (validationResult = ValidationResultReady /\ err = NoError)
        /\ usersGet # NoError => (validationResult = ValidationResultError /\ err # NoError)

\* the client the last successful NewClient installed, nil when there was none
LastInstalled == IF handles = <<>> THEN Nil ELSE handles[Len(handles)]

FrameOperations == {"ValidateStore", "GetSecret", "GetSecretMap", "GetAllSecrets", "Validate", "Close"}

\* C25: ValidateStore, GetSecret, GetSecretMap, GetAllSecrets, Validate and Close leave
\* the provider as it is: its client is the one the last successful NewClient
\* installed, and a GetSecret repeated with the same key and property returns the same.
C25_ProviderStateFramed ==
    [][/\ opName' \in FrameOperations =>
             /\ ChefInterface' = ChefInterface
             /\ handles' = handles
       /\ ChefInterface'.client = LastInstalled'
       /\ (opName = "GetSecret" /\ opName' = "GetSecret" /\ remoteRef' = remoteRef) =>
             /\ secretData' = secretData
             /\ err' = err]_vars

C25_Witness ==
    /\ opName = "ValidateStore"
    /\ Initialized
    /\ ChefInterface.client = LastInstalled

\* C26: no remote call is repeated: GetSecret fetches at most one item and lists
\* nothing; GetSecretMap lists once, first, then fetches each listed name at most once
\* and nothing else, and fetches nothing when the listing failed.
C26_NoRetry ==
    /\ opName = "GetSecret" =>
          /\ Cardinality(ItemFetches) <= 1
          /\ Listings = {}
    /\ (opName = "GetSecretMap" /\ Initialized) =>
          /\ Listings = {1}
          /\ \A i \in ItemFetches :
                /\ trace[i].arg.bag = remoteRef.Key
                /\ trace[i].arg.item \in ListedNames(remoteRef.Key)
                /\ \A j \in ItemFetches : trace[j].arg.item = trace[i].arg.item => j = i

C26_Witness ==
    /\ opName = "GetSecretMap"
    /\ remoteRef.Key = <<"databag02">>
    /\ Listings = {1}
    /\ ItemFetches = {2, 3}
    /\ trace[2].arg.item = <<"item03">>

C28_NewClientOnlyValidStores ==
    (opName = "NewClient" /\ ValidateStore(store).err # NoError) =>
        /\ err # NoError
        /\ ret = Nil

\* C29: a NewClient that returns an error leaves the client of the provider as it was.
C29_FailedNewClientFramed ==
    [][(opName' = "NewClient" /\ err' # NoError) =>
          /\ ChefInterface' = ChefInterface
          /\ handles' = handles]_vars

C29_Witness ==
    /\ opName = "NewClient"
    /\ err # NoError
    /\ Initialized
    /\ ChefInterface.client = LastInstalled

\* C30: NewClient looks the auth secret up in the namespace of the secret reference for
\* a cluster-scoped store and in the namespace of the call for a namespace-scoped one,
\* and does not reject a store for being namespace-scoped.
C30_LookupNamespace ==
    (opName = "NewClient" /\ FieldChecksPass(store)) =>
        /\ trace # <<>>
        /\ trace[1].call = "kube.Get"
        /\ (Deref(store).Kind = ClusterSecretStoreKind /\ SecretKeyOf(store).Namespace # Nil) =>
              trace[1].arg.Namespace = Deref(SecretKeyOf(store).Namespace)
        /\ Deref(store).Kind = SecretStoreKind => trace[1].arg.Namespace = namespace

====
